---- MODULE Spec2Model ----
(***************************************************************************)
(* TEshortlinksbot (bot.py): a Telegram bot that issues batches of 10      *)
(* deep-link tokens (owner only), records which user opens which link     *)
(* (/start <token>) and reports on it.  The three SQLite tables links,     *)
(* users and solves are the state; every handler is modelled from its      *)
(* code.  The Application is built with its defaults (line 317), which     *)
(* handle one update at a time: a handler runs from dispatch to its end    *)
(* before the next update is taken.  Within a handler every db_execute     *)
(* call commits on its own, so the handlers that write more than once      *)
(* (generate, restart) are stepped one committed statement at a time.      *)
(***************************************************************************)
EXTENDS Integers, Sequences, FiniteSets, TLC

(* ------------------------------ bounds --------------------------------- *)
\* AUTOINCREMENT ids of links stay <= MaxLinks: a batch starts only when
\* BatchSize more rows fit.
MaxLinks == 20
\* AUTOINCREMENT ids of solves stay <= MaxSolves.
MaxSolves == 2
\* The solves table a run of /latest alone starts from holds up to MaxStored
\* rows, of which up to MaxTies carry the solved_at of the row before.
MaxStored == 12
MaxTies == 2

(* ------------------------- program constants --------------------------- *)
\* A loop that stops one iteration early.
BatchSizeOffByOne == 10 - 1
\* for i in range(10)
BatchSize == 10
\* ORDER BY s.solved_at DESC LIMIT 10
RecentLimit == 10

(* ------------------------------ inputs --------------------------------- *)
\* update.effective_user is None for updates without a sender.
NoUser == 0
\* Telegram ids of the senders.
UserIds == {1, 2}
\* The values datetime.utcnow() takes.
Times == {0, 1}
Senders == UserIds \cup {NoUser}
\* user.username: None (no username set) or a name; names are strings of
\* characters, written as sequences.
NoName == <<"None">>
Usernames(user) == IF user = 2 THEN {<<"b">>} ELSE {NoName}
\* os.environ.get("OWNER_ID"): unset, or a string of characters.
Unset == <<"unset">>
OwnerEnvs == {Unset, <<>>, <<"x">>, <<"1">>}
\* Token values are opaque strings; they are named by numbers.  uuid4 names
\* its values in the order it first returns them, so the first batch is
\* 1..10 when no value repeats.  Senders present these values with /start:
\* the first of the first batch and the first of the next one (which is an
\* unknown value until that batch is generated).
ArgTokens == {1, BatchSize + 1}
\* The iterations of generate's loop at which uuid4 may repeat a value: the
\* first, the second and the last.
RepeatAt == {0, 1, BatchSize - 1}
\* context.args of /start: nothing or a token; an update without a sender is
\* drawn without arguments, since no handler reads them.
StartArgs(user) ==
  IF user = NoUser THEN {<<>>} ELSE {<<>>} \cup {<<t>> : t \in ArgTokens}
\* What the environment does in one run: either the clock advances between
\* two readings, or uuid4 returns (once) a value it returned before.
Worlds == {"clock", "uuid4"}

VARIABLES
  world,      \* the environment of this run, one of Worlds
  ownerEnv,   \* the OWNER_ID environment variable
  links,      \* table links: rows [id, token, label, created_at]
  users,      \* table users: rows [id, telegram_id, username, first_seen]
  solves,     \* table solves: rows [id, user_id, token, solved_at]
  seq,        \* sqlite_sequence: the last AUTOINCREMENT id of each table
  clock,      \* the last value datetime.utcnow() returned
  issued,     \* how many distinct values uuid4 has returned so far
  repeated,   \* uuid4 has returned a value a second time
  pc,         \* position of the handler in progress, "idle" between updates
  update,     \* the update being handled (or handled last): [cmd, user,
              \* args (of /start), uargs (of /user)]
  i,          \* generate: loop index
  tokens,     \* generate: list of <<label, token>> of this batch
  now,        \* generate: the timestamp of this batch
  replies,    \* reply_text calls made for the update, in order
  raised,     \* the handler ended with an unhandled exception
  firsts,     \* per telegram id: "First link solved" replies received,
              \* ever and since the last DELETE FROM solves
  started,    \* the telegram ids that have sent /start, ever
  succeeded   \* how many /start were answered with a solve since the last
              \* DELETE FROM solves

vars == <<world, ownerEnv, links, users, solves, seq, clock, issued, repeated,
          pc, update, i, tokens, now, replies, raised, firsts, started, succeeded>>
env == <<world, ownerEnv>>
db == <<links, users, solves, seq>>
locals == <<i, tokens, now>>

(* --------------------------- Python helpers ---------------------------- *)
Digits == <<"0", "1", "2", "3", "4", "5", "6", "7", "8", "9">>
IsDigitChar(c) == \E d \in 1..Len(Digits) : Digits[d] = c
DigitVal(c) == (CHOOSE d \in 1..Len(Digits) : Digits[d] = c) - 1

\* str.isdigit(): non-empty and every character a digit.
isdigit(s) == Len(s) > 0 /\ \A k \in 1..Len(s) : IsDigitChar(s[k])

RECURSIVE IntOf(_)
\* int(s) on a string of digits.
IntOf(s) ==
  IF Len(s) = 0 THEN 0
  ELSE 10 * IntOf(SubSeq(s, 1, Len(s) - 1)) + DigitVal(s[Len(s)])

RECURSIVE lstrip(_, _)
\* str.lstrip(c): drop the leading occurrences of c.
lstrip(s, c) ==
  IF Len(s) > 0 /\ s[1] = c THEN lstrip(Tail(s), c) ELSE s

\* The Python value None, where an integer is expected.
None == -1

\* owner_only.wrapper, lines 95-102: the owner id parsed from the environment
\* (int() raises ValueError on a non-digit, which gives None) and the test
\* that lets the handler run.
OwnerId ==
  IF ownerEnv = Unset \/ ownerEnv = <<>> THEN None
  ELSE IF isdigit(ownerEnv) THEN IntOf(ownerEnv) ELSE None
\* The test that rejects only a sender who differs from a configured owner:
\* without a configured owner it lets every sender through.
AuthorizedFailOpen(user) ==
  user # NoUser /\ (OwnerId = None \/ user = OwnerId)
\* The test without the comparison of ids: every sender passes once an
\* owner is configured.
AuthorizedAnySender(user) ==
  ~(user = NoUser \/ OwnerId = None)
Authorized(user) ==
  ~(user = NoUser \/ OwnerId = None \/ user # OwnerId)

\* context.args of /user: none, a numeric id, a name with "@".  A sender the
\* wrapper rejects is drawn without arguments: the handler that would read
\* them does not run.
UserArgs(user) ==
  IF ~Authorized(user) THEN {<<>>}
  ELSE {<<>>, <<<<"2">>>>, <<<<"9">>>>, <<<<"@", "b">>>>}

(* ------------------------------ replies -------------------------------- *)
\* A reply_text call: the fixed text (kind), the numbers formatted into it
\* and the lines joined into it.
Reply(kind, n, m, name, lines) ==
  [kind |-> kind, n |-> n, m |-> m, name |-> name, lines |-> lines]
Plain(kind) == Reply(kind, 0, 0, <<>>, <<>>)
\* One line of a listing: the fields formatted into it.
Line(label, token, at, name, tid) ==
  [label |-> label, token |-> token, at |-> at, name |-> name, tid |-> tid]

Unauthorized == Plain("Unauthorized.")
Welcome == Plain("Welcome. This bot only records solves via special links.")
InvalidToken == Plain("Invalid or expired link token.")
AlreadyRedeemed == Plain("You have already solved this link.")
FirstRedemption == Plain("First link solved")
SubsequentRedemption(total) ==
  Reply("Link solved. You have solved n links so far.", total, 0, <<>>, <<>>)
\* The replies of a /start that stored a solve.
Success == {FirstRedemption.kind, SubsequentRedemption(0).kind}
Cleared == Plain("Old links and solves cleared. Generating 10 new links...")
Generated(lines) == Reply("Generated 10 deep links", 0, 0, <<>>, lines)
Usage == Plain("Usage: /user <telegram_id_or_username>")
NotFound == Plain("User not found in DB.")
NoRecent == Plain("No recent solves")
NoSolvesYet == Line(<<"No solves yet", 0>>, 0, 0, <<>>, 0)

(* ------------------------------ queries -------------------------------- *)
\* SELECT id FROM users WHERE telegram_id=?
UsersByTelegramId(table, tid) == {u \in table : u.telegram_id = tid}
\* The lookup without its WHERE clause.
LinksByTokenNoWhere(token) == links
\* SELECT label FROM links WHERE token=?
LinksByToken(token) == {l \in links : l.token = token}
\* The query with its two parameters in the wrong order.
SolvesOfSwapped(table, uid, token) == {s \in table : s.user_id = token /\ s.token = uid}
\* The query of a single-use token: redeemed by anyone.
SolvesOfAnyUser(table, uid, token) == {s \in table : s.token = token}
\* SELECT id FROM solves WHERE user_id=? AND token=?
SolvesOf(table, uid, token) == {s \in table : s.user_id = uid /\ s.token = token}
\* The count taken before the INSERT of the new row.
CountSolvesBeforeInsert(table, uid) == Cardinality({s \in table : s.user_id = uid}) - 1
\* The count over all users.
CountSolvesAllUsers(table, uid) == Cardinality(table)
\* SELECT COUNT(*) FROM solves WHERE user_id=?
CountSolves(table, uid) == Cardinality({s \in table : s.user_id = uid})
\* A column without its UNIQUE constraint.
NoUniqueConstraint(token) == FALSE
\* token TEXT UNIQUE: an INSERT of a stored value is refused.
UniqueViolation(token) == \E l \in links : l.token = token
\* A DELETE with a WHERE clause that matches no row.
DeleteNothing(table) == table
\* DELETE FROM <table>: what is left of it.
DeleteFrom(table) == {}

\* datetime.utcnow(): the clock does not run backwards.
NowValues == IF world = "clock" THEN {t \in Times : t >= clock} ELSE {clock}

Upd(cmd, user, args, uargs) ==
  [cmd |-> cmd, user |-> user, args |-> args, uargs |-> uargs]

\* What every dispatch does to the handler's locals.
Fresh == i' = 0 /\ tokens' = <<>> /\ now' = 0 /\ raised' = FALSE

TypeOK ==
  /\ ownerEnv \in OwnerEnvs
  /\ pc \in {"idle", "restart_delete_links", "restart_generate", "generate_loop"}
  /\ clock \in Times
  /\ i \in 0..BatchSize
  /\ raised \in BOOLEAN
  /\ started \subseteq UserIds
  /\ succeeded \in 0..MaxSolves

Init ==
  /\ world \in Worlds
  /\ ownerEnv \in OwnerEnvs
  /\ links = {} /\ users = {} /\ solves = {}
  /\ seq = [links |-> 0, users |-> 0, solves |-> 0]
  /\ clock = 0
  /\ issued = 0
  /\ repeated = FALSE
  /\ pc = "idle"
  /\ update = Upd("none", NoUser, <<>>, <<>>)
  /\ i = 0 /\ tokens = <<>> /\ now = 0
  /\ replies = <<>>
  /\ raised = FALSE
  /\ firsts = [u \in UserIds |-> [ever |-> 0, epoch |-> 0]]
  /\ started = {}
  /\ succeeded = 0

(* ------------------------------- start --------------------------------- *)
\* start, lines 228-278, run without suspension up to its one reply.
Start(user, username, args) ==
  /\ pc = "idle"
  /\ update' = Upd("start", user, args, <<>>)
  /\ Fresh
  /\ UNCHANGED <<env, links, issued, repeated, pc>>
  /\ IF user = NoUser
     THEN /\ replies' = <<>>
          /\ UNCHANGED <<users, solves, seq, clock, firsts>>
     ELSE \E t \in NowValues :
       LET existing == UsersByTelegramId(users, user)
           newUser == [id |-> seq.users + 1, telegram_id |-> user,
                       username |-> IF username = NoName THEN <<>> ELSE username,
                       first_seen |-> t]
           users1 == IF existing = {} THEN users \cup {newUser} ELSE users
           seqU == IF existing = {} THEN [seq EXCEPT !.users = @ + 1] ELSE seq
           user_db_id == (CHOOSE u \in UsersByTelegramId(users1, user) : TRUE).id
       IN
       /\ clock' = t
       /\ users' = users1
       /\ IF args # <<>>
          THEN LET token == args[1]
                   tok_exists == LinksByToken(token)
                   already == SolvesOf(solves, user_db_id, token)
                   solves1 == solves \cup {[id |-> seq.solves + 1, user_id |-> user_db_id,
                                            token |-> token, solved_at |-> t]}
                   total == CountSolves(solves1, user_db_id)
               IN
               IF tok_exists # {}
               THEN IF already # {}
                    THEN /\ replies' = <<AlreadyRedeemed>>
                         /\ solves' = solves /\ seq' = seqU
                         /\ firsts' = firsts
                    ELSE /\ seq.solves < MaxSolves
                         /\ solves' = solves1
                         /\ seq' = [seqU EXCEPT !.solves = @ + 1]
                         /\ IF total = 1
                            THEN /\ replies' = <<FirstRedemption>>
                                 /\ firsts' = [firsts EXCEPT ![user] =
                                      [ever |-> @.ever + 1, epoch |-> @.epoch + 1]]
                            ELSE /\ replies' = <<SubsequentRedemption(total)>>
                                 /\ firsts' = firsts
               ELSE /\ replies' = <<InvalidToken>>
                    /\ solves' = solves /\ seq' = seqU
                    /\ firsts' = firsts
          ELSE /\ replies' = <<Welcome>>
               /\ solves' = solves /\ seq' = seqU
               /\ firsts' = firsts
  /\ started' = IF user = NoUser THEN started ELSE started \cup {user}
  /\ succeeded' = IF replies' # <<>> /\ replies'[1].kind \in Success
                  THEN succeeded + 1 ELSE succeeded

(* ------------------------------ generate ------------------------------- *)
\* uuid.uuid4().hex: any value.  A value never returned before is named
\* issued + 1; a value returned before is one of 1..issued, either still
\* stored or the value of a deleted row.  Of the deleted values only those a
\* sender presents (ArgTokens) are told apart by an input, so these stand
\* for all of them.  The repeat comes at one of the calls RepeatAt of a batch.
Uuid4Values ==
  {issued + 1} \cup
  {v \in 1..issued :
     /\ world = "uuid4" /\ ~repeated /\ i \in RepeatAt
     /\ (\E l \in links : l.token = v) \/ v \in ArgTokens}

\* generate behind owner_only, lines 94-122: the sender test, then get_me,
\* the empty list and the batch's timestamp.  sofar: the replies already
\* made for this update.
EnterGenerate(user, sofar) ==
  IF ~Authorized(user)
  THEN /\ replies' = Append(sofar, Unauthorized)
       /\ pc' = "idle"
       /\ i' = 0 /\ tokens' = <<>> /\ now' = 0
       /\ UNCHANGED clock
  ELSE /\ seq.links + BatchSize <= MaxLinks
       /\ \E t \in NowValues :
            /\ clock' = t
            /\ i' = 0 /\ tokens' = <<>> /\ now' = t
       /\ pc' = "generate_loop"
       /\ replies' = sofar

Generate(user) ==
  /\ pc = "idle"
  /\ update' = Upd("generate", user, <<>>, <<>>)
  /\ raised' = FALSE
  /\ UNCHANGED <<env, db, issued, repeated, firsts, started, succeeded>>
  /\ EnterGenerate(user, <<>>)

\* One iteration of the loop, lines 123-130.  The INSERT of a stored value
\* breaks UNIQUE(token): sqlite3.IntegrityError leaves the handler.
GenerateInsert ==
  /\ pc = "generate_loop"
  /\ i < BatchSize
  /\ \E token \in Uuid4Values :
       LET label == <<"Link-", i + 1>> IN
       IF UniqueViolation(token)
       THEN /\ raised' = TRUE
            /\ pc' = "idle"
            /\ repeated' = TRUE
            /\ UNCHANGED <<db, issued, i, tokens>>
       ELSE /\ links' = links \cup {[id |-> seq.links + 1, token |-> token,
                                     label |-> label, created_at |-> now]}
            /\ seq' = [seq EXCEPT !.links = @ + 1]
            /\ issued' = IF token = issued + 1 THEN issued + 1 ELSE issued
            /\ repeated' = (repeated \/ token # issued + 1)
            /\ tokens' = Append(tokens, <<label, token>>)
            /\ i' = i + 1
            /\ UNCHANGED <<users, solves, pc, raised>>
  /\ UNCHANGED <<env, clock, update, now, replies, firsts, started, succeeded>>

\* Lines 132-141: the reply that lists the batch.
GenerateReply ==
  /\ pc = "generate_loop"
  /\ i = BatchSize
  /\ replies' = Append(replies, Generated(tokens))
  /\ pc' = "idle"
  /\ UNCHANGED <<env, db, clock, issued, repeated, update, locals, raised, firsts, started, succeeded>>

(* ------------------------------- restart ------------------------------- *)
\* restart with DELETE FROM links as its first statement, the solves left
\* as they are.
RestartLinksFirst(user) ==
  /\ pc = "idle"
  /\ update' = Upd("restart", user, <<>>, <<>>)
  /\ Fresh
  /\ UNCHANGED <<env, users, solves, seq, clock, issued, repeated, started, succeeded>>
  /\ IF ~Authorized(user)
     THEN /\ replies' = <<Unauthorized>>
          /\ pc' = "idle"
          /\ UNCHANGED <<links, firsts>>
     ELSE /\ seq.links + BatchSize <= MaxLinks
          /\ links' = DeleteFrom(links)
          /\ firsts' = firsts
          /\ replies' = <<>>
          /\ pc' = "restart_delete_links"
\* restart with a DELETE FROM users next to its DELETE FROM solves.
RestartDeletesUsers(user) ==
  /\ pc = "idle"
  /\ update' = Upd("restart", user, <<>>, <<>>)
  /\ Fresh
  /\ UNCHANGED <<env, links, seq, clock, issued, repeated, started>>
  /\ IF ~Authorized(user)
     THEN /\ replies' = <<Unauthorized>>
          /\ pc' = "idle"
          /\ UNCHANGED <<users, solves, firsts, succeeded>>
     ELSE /\ seq.links + BatchSize <= MaxLinks
          /\ solves' = DeleteFrom(solves)
          /\ users' = DeleteFrom(users)
          /\ firsts' = [u \in UserIds |-> [firsts[u] EXCEPT !.epoch = 0]]
          /\ succeeded' = 0
          /\ replies' = <<>>
          /\ pc' = "restart_delete_links"
\* restart behind owner_only, lines 94-108 and 147: DELETE FROM solves.
Restart(user) ==
  /\ pc = "idle"
  /\ update' = Upd("restart", user, <<>>, <<>>)
  /\ Fresh
  /\ UNCHANGED <<env, links, users, seq, clock, issued, repeated, started>>
  /\ IF ~Authorized(user)
     THEN /\ replies' = <<Unauthorized>>
          /\ pc' = "idle"
          /\ UNCHANGED <<solves, firsts, succeeded>>
     ELSE /\ seq.links + BatchSize <= MaxLinks
          /\ solves' = DeleteFrom(solves)
          /\ firsts' = [u \in UserIds |-> [firsts[u] EXCEPT !.epoch = 0]]
          /\ succeeded' = 0
          /\ replies' = <<>>
          /\ pc' = "restart_delete_links"

\* Lines 148-149: DELETE FROM links, then the first reply.
RestartDeleteLinks ==
  /\ pc = "restart_delete_links"
  /\ links' = DeleteFrom(links)
  /\ replies' = Append(replies, Cleared)
  /\ pc' = "restart_generate"
  /\ UNCHANGED <<env, users, solves, seq, clock, issued, repeated, update, locals,
               raised, firsts, started, succeeded>>

\* Line 150: await generate(update, context), the decorated generate, with
\* the same update.
RestartGenerate ==
  /\ pc = "restart_generate"
  /\ UNCHANGED <<env, db, issued, repeated, update, raised, firsts, started, succeeded>>
  /\ EnterGenerate(update.user, replies)

(* ------------------------------ reporting ------------------------------ *)
\* A handler that only reads: what it leaves alone.
ReadOnly == Fresh /\ UNCHANGED <<env, db, clock, issued, repeated, pc, firsts, started, succeeded>>

\* stats with the last ids in place of the row counts.
StatsByLastId(user) ==
  /\ pc = "idle"
  /\ update' = Upd("stats", user, <<>>, <<>>)
  /\ ReadOnly
  /\ replies' = IF ~Authorized(user) THEN <<Unauthorized>>
                ELSE <<Reply("Total users: n Total links solved: m",
                             seq.users, seq.solves, <<>>, <<>>)>>
\* stats behind owner_only, lines 153-161.
Stats(user) ==
  /\ pc = "idle"
  /\ update' = Upd("stats", user, <<>>, <<>>)
  /\ ReadOnly
  /\ replies' = IF ~Authorized(user) THEN <<Unauthorized>>
                ELSE <<Reply("Total users: n Total links solved: m",
                             Cardinality(users), Cardinality(solves), <<>>, <<>>)>>

\* The comparison of ORDER BY solved_at without its DESC.
NotAfterAscending(x, y, desc) == x.solved_at <= y.solved_at
\* ORDER BY solved_at [DESC]: row x may come before row y.
NotAfter(x, y, desc) ==
  IF desc THEN x.solved_at >= y.solved_at ELSE x.solved_at <= y.solved_at

RECURSIVE OrderBySolvedAt(_, _)
\* The enumerations of the rows S in the order ORDER BY solved_at gives
\* (descending when desc); rows of equal solved_at come in any order.
OrderBySolvedAt(S, desc) ==
  IF S = {} THEN {<<>>}
  ELSE UNION {{<<x>> \o q : q \in OrderBySolvedAt(S \ {x}, desc)} :
                x \in {x \in S : \A y \in S : NotAfter(x, y, desc)}}

\* lbl = lbl_row[0][0] if lbl_row else tok: the label of a stored token, or
\* the token itself.
LabelOrToken(tok) ==
  IF LinksByToken(tok) # {} THEN (CHOOSE l \in LinksByToken(tok) : TRUE).label
  ELSE <<"", tok>>

\* The listing without its branch for a user who has no solves.
SolvedLinesNoEmptyCase(q) ==
  [k \in 1..Len(q) |->
     Line(LabelOrToken(q[k].token), q[k].token, q[k].solved_at, <<>>, 0)]
\* Lines 195-201: "No solves yet", or one line for each solve of the user.
SolvedLines(q) ==
  IF Len(q) = 0 THEN <<NoSolvesYet>>
  ELSE [k \in 1..Len(q) |->
         Line(LabelOrToken(q[k].token), q[k].token, q[k].solved_at, <<>>, 0)]

\* user_info behind owner_only, lines 164-202.
UserInfo(user, uargs) ==
  /\ pc = "idle"
  /\ update' = Upd("user", user, <<>>, uargs)
  /\ ReadOnly
  /\ IF ~Authorized(user) THEN replies' = <<Unauthorized>>
     ELSE IF uargs = <<>> THEN replies' = <<Usage>>
     ELSE LET identifier == uargs[1]
              rows == IF isdigit(identifier)
                      THEN UsersByTelegramId(users, IntOf(identifier))
                      ELSE {u \in users : u.username = lstrip(identifier, "@")}
          IN
          IF rows = {} THEN replies' = <<NotFound>>
          ELSE \E user_row \in rows :
               \E q \in OrderBySolvedAt({s \in solves : s.user_id = user_row.id}, FALSE) :
                 replies' = <<Reply("User: name (n) First seen: m Solved links:",
                                    user_row.telegram_id, user_row.first_seen,
                                    user_row.username,
                                    SolvedLines(q))>>

\* latest behind owner_only, lines 205-222.
Latest(user) ==
  /\ pc = "idle"
  /\ update' = Upd("latest", user, <<>>, <<>>)
  /\ ReadOnly
  /\ IF ~Authorized(user) THEN replies' = <<Unauthorized>>
     ELSE LET joined == {s \in solves : \E u \in users : u.id = s.user_id} IN
          \E q \in OrderBySolvedAt(joined, TRUE) :
            LET rows == SubSeq(q, 1, IF Len(q) < RecentLimit THEN Len(q) ELSE RecentLimit)
                UserOf(s) == CHOOSE u \in users : u.id = s.user_id
            IN
            IF Len(rows) = 0 THEN replies' = <<NoRecent>>
            ELSE replies' = <<Reply("Recent solves", 0, 0, <<>>,
                                    [k \in 1..Len(rows) |->
                                       Line(LabelOrToken(rows[k].token), rows[k].token,
                                            rows[k].solved_at, UserOf(rows[k]).username,
                                            UserOf(rows[k]).telegram_id)])>>

(* ------------------------------------------------------------------------ *)
Next ==
  \/ \E user \in Senders : \E username \in Usernames(user), args \in StartArgs(user) :
       Start(user, username, args)
  \/ \E user \in Senders : Generate(user)
  \/ GenerateInsert
  \/ GenerateReply
  \/ \E user \in Senders : Restart(user)
  \/ RestartDeleteLinks
  \/ RestartGenerate
  \/ \E user \in Senders : Stats(user)
  \/ \E user \in Senders : \E uargs \in UserArgs(user) : UserInfo(user, uargs)
  \/ \E user \in Senders : Latest(user)

Spec == Init /\ [][Next]_vars

(* --------------------------- /latest alone ----------------------------- *)
\* The tables after one batch, both senders' first /start and n successful
\* /start <token>: the k-th solve is that of sender 1 or 2 in turn, of
\* the next token; utcnow gave the solve before's time to the solves in T
\* and a later time to every other.
SolvedAt(k, T) == k - Cardinality({t \in T : t <= k})
StoredLinks ==
  {[id |-> k, token |-> k, label |-> <<"Link-", k>>, created_at |-> 0] : k \in 1..BatchSize}
StoredUsers ==
  {[id |-> u, telegram_id |-> u,
    username |-> IF Usernames(u) = {NoName} THEN <<>> ELSE CHOOSE n \in Usernames(u) : TRUE,
    first_seen |-> 0] : u \in UserIds}
StoredSolves(n, T) ==
  {[id |-> k, user_id |-> ((k - 1) % 2) + 1, token |-> ((k - 1) \div 2) + 1,
    solved_at |-> SolvedAt(k, T)] : k \in 1..n}

InitLatest ==
  \E n \in 0..MaxStored : \E T \in SUBSET (2..n) :
    /\ Cardinality(T) <= MaxTies
    /\ world = "clock"
    /\ ownerEnv = <<"1">>
    /\ links = StoredLinks /\ users = StoredUsers /\ solves = StoredSolves(n, T)
    /\ seq = [links |-> BatchSize, users |-> Cardinality(UserIds), solves |-> n]
    /\ clock = SolvedAt(n, T)
    /\ issued = BatchSize
    /\ repeated = FALSE
    /\ pc = "idle"
    /\ update = Upd("none", NoUser, <<>>, <<>>)
    /\ i = 0 /\ tokens = <<>> /\ now = 0
    /\ replies = <<>>
    /\ raised = FALSE
    /\ firsts = [u \in UserIds |-> IF u <= n THEN [ever |-> 1, epoch |-> 1]
                                   ELSE [ever |-> 0, epoch |-> 0]]
    /\ started = UserIds
    /\ succeeded = n

NextLatest == \E user \in Senders : Latest(user)

SpecLatest == InitLatest /\ [][NextLatest]_vars

(* ======================================================================== *)
(* Properties                                                               *)
(* ======================================================================== *)
Privileged == {"generate", "restart", "stats", "user", "latest"}

\* The user row of a telegram id, and the events of a telegram id.
RowsOf(tid) == {u \in users : u.telegram_id = tid}
EventsOf(tid) == {s \in solves : \E u \in RowsOf(tid) : s.user_id = u.id}
HasEvent(tid, token) == \E s \in EventsOf(tid) : s.token = token
Stored(token) == \E l \in links : l.token = token

\* The step that dispatches /start <token> from a sender with an id.
StartStep ==
  /\ pc = "idle"
  /\ update'.cmd = "start"
  /\ update'.user # NoUser
  /\ update'.args # <<>>
\* The step that dispatches a privileged command.
PrivilegedStep == pc = "idle" /\ update'.cmd \in Privileged
\* The handler of the last update has returned, having made these replies.
Returned(cmd) == pc = "idle" /\ ~raised /\ update.cmd = cmd

\* C1: in every reachable state the solves table holds at most one event
\* for any (user, token) pair.
C1_OneEventPerPair ==
  \A tid \in UserIds : \A s1, s2 \in EventsOf(tid) :
    s1.token = s2.token => s1 = s2
\* A second attempt on a redeemed pair has just been rejected.
C1_Witness ==
  /\ Returned("start") /\ update.args # <<>>
  /\ replies = <<AlreadyRedeemed>>
  /\ Cardinality({s \in EventsOf(update.user) : s.token = update.args[1]}) = 1

\* C2: a start(u, t) made when an event for (u, t) exists replies "You have
\* already solved this link." and leaves links, users and solves as they were.
C2_AlreadyRedeemedNoOp ==
  [][(StartStep /\ HasEvent(update'.user, update'.args[1]))
       => /\ replies' = <<AlreadyRedeemed>>
          /\ UNCHANGED <<links, users, solves, seq>>]_vars
\* The second call of the same pair, with other events and tokens around.
C2_Witness ==
  /\ Returned("start") /\ update.args # <<>>
  /\ replies = <<AlreadyRedeemed>>
  /\ HasEvent(update.user, update.args[1])
  /\ Cardinality(solves) = 2

\* C3 as stated: over any sequence of operations each user receives "First
\* link solved" for at most one start call.
C3_FirstOnlyOnceEver ==
  \A tid \in UserIds : firsts[tid].ever <= 1
\* C3 as amended: since the last DELETE FROM solves (or since the beginning)
\* a user has received "First link solved" exactly once if the user has an
\* event and not at all otherwise, so every other successful redemption of
\* that period was answered with the count; and a successful redemption is
\* answered "First link solved" exactly when it is the user's only event.
C3_FirstOncePerReset ==
  /\ \A tid \in UserIds :
       firsts[tid].epoch = IF EventsOf(tid) = {} THEN 0 ELSE 1
  /\ (Returned("start") /\ replies # <<>> /\ replies[1].kind \in Success)
       => (replies = <<FirstRedemption>>
             <=> Cardinality(EventsOf(update.user)) = 1)
\* A user with two events: the first was answered "First link solved", the
\* second with the count.
C3_Witness ==
  /\ Returned("start")
  /\ replies = <<SubsequentRedemption(2)>>
  /\ firsts[update.user].epoch = 1
  /\ Cardinality(EventsOf(update.user)) = 2

\* C4: a start(user, token) whose token is not in the links table replies
\* "Invalid or expired link token." and writes no event and no token.
C4_UnknownTokenInvalid ==
  [][(StartStep /\ ~Stored(update'.args[1]))
       => /\ replies' = <<InvalidToken>>
          /\ UNCHANGED <<links, solves>>]_vars
\* A value that was a stored token before a reset, presented by a user who
\* has an event.
C4_Witness ==
  /\ Returned("start") /\ update.args # <<>>
  /\ replies = <<InvalidToken>>
  /\ update.args[1] <= issued /\ ~Stored(update.args[1])
  /\ EventsOf(update.user) # {}

\* C5: a sender other than the configured operator who invokes generate,
\* restart, stats, user or latest gets "Unauthorized." and the tables are
\* unchanged by the call.
C5_NonOperatorUnauthorized ==
  [][(PrivilegedStep /\ isdigit(ownerEnv) /\ update'.user # IntOf(ownerEnv))
       => /\ replies' = <<Unauthorized>>
          /\ pc' = "idle"
          /\ UNCHANGED <<links, users, solves, seq>>]_vars
\* A restart by a non-operator when there are tokens and events to lose.
C5_Witness ==
  /\ Returned("restart") /\ update.user = 2 /\ ownerEnv = <<"1">>
  /\ replies = <<Unauthorized>>
  /\ links # {} /\ solves # {}

\* C6: when OWNER_ID is missing or is not a valid integer, every privileged
\* command of every sender is answered "Unauthorized." and none runs its
\* body: no handler is ever in progress and no token is ever issued.
C6_NoOperatorRejectsAll ==
  (ownerEnv = Unset \/ ~isdigit(ownerEnv))
    => /\ pc = "idle"
       /\ links = {} /\ seq.links = 0
       /\ update.cmd \in Privileged => replies = <<Unauthorized>>
\* A generate by sender 1 under OWNER_ID=x.
C6_Witness ==
  /\ ownerEnv = <<"x">>
  /\ update.cmd = "generate" /\ update.user = 1
  /\ replies = <<Unauthorized>>
  /\ users # {}

\* The rows of the batch the last generate inserted: the ten newest ids.
LastBatch == {l \in links : l.id > seq.links - 10}
\* The token values a "Generated 10 deep links" reply lists.
Listed(reply) == {reply.lines[k][2] : k \in 1..Len(reply.lines)}

\* C7: after a restart by the operator that ran to completion the solves
\* table is empty and the links table holds exactly the 10 rows the restart
\* inserted, none of the rows that existed before (and none of their values
\* unless uuid4 repeated one); no step of a restart changes the users table.
C7_RestartLeavesFreshBatch ==
  /\ [](( /\ Returned("restart") /\ Len(replies) = 2
          /\ replies[2].kind = Generated(<<>>).kind)
          => /\ solves = {}
             /\ Cardinality(links) = 10
             /\ links = LastBatch
             /\ \A l \in links : l.created_at = now
             /\ {l.token : l \in links} = Listed(replies[2])
             /\ ~repeated => \A l \in links : l.token > issued - 10)
  /\ [][update'.cmd = "restart" => users' = users]_vars
\* A completed restart that came after a first batch, a user and an event.
C7_Witness ==
  /\ Returned("restart") /\ Len(replies) = 2
  /\ replies[2].kind = Generated(<<>>).kind
  /\ seq.links = 20 /\ seq.solves > 0 /\ users # {}

\* C8: the token values of one batch are pairwise distinct and no two rows
\* of the links table carry the same token value, also when uuid4 returns a
\* value it returned before.
C8_TokensDistinct ==
  /\ \A l1, l2 \in links : l1.token = l2.token => l1 = l2
  /\ \A a, b \in 1..Len(tokens) : tokens[a][2] = tokens[b][2] => a = b
\* uuid4 has repeated a stored value in the middle of a batch.
C8_Witness ==
  /\ raised /\ repeated
  /\ update.cmd = "generate" /\ i > 0

\* C9: for a stored token t and a user B with no event for (B, t),
\* start(B, t) succeeds and adds exactly one event, that of (B, t), however
\* many other users have redeemed t.
C9_OtherUsersStillRedeem ==
  [][(StartStep /\ Stored(update'.args[1])
        /\ ~HasEvent(update'.user, update'.args[1]))
       => /\ replies'[1].kind \in Success
          /\ solves \subseteq solves'
          /\ Cardinality(solves') = Cardinality(solves) + 1
          /\ \E s \in solves' \ solves, u \in users' :
               /\ u.telegram_id = update'.user
               /\ s.user_id = u.id /\ s.token = update'.args[1]]_vars
\* The same token redeemed by two users, the second just now.
C9_Witness ==
  /\ Returned("start") /\ update.args # <<>>
  /\ replies = <<FirstRedemption>>
  /\ \E s1, s2 \in solves :
       /\ s1.token = update.args[1] /\ s2.token = update.args[1]
       /\ s1.user_id # s2.user_id

\* C10: a generate by the operator that ran to completion has added exactly
\* 10 rows to the links table, the ones its reply lists; no step of a
\* generate removes or changes a stored token, an event or a user.
C10_GenerateAddsTen ==
  /\ [](( /\ Returned("generate") /\ replies # <<>>
          /\ replies[1].kind = Generated(<<>>).kind)
          => /\ Cardinality(LastBatch) = 10
             /\ \A l \in LastBatch : l.created_at = now
             /\ {l.token : l \in LastBatch} = Listed(replies[1])
             /\ Cardinality(Listed(replies[1])) = 10)
  /\ [][update'.cmd = "generate"
          => /\ links \subseteq links'
             /\ Cardinality(links') <= Cardinality(links) + 1
             /\ UNCHANGED <<users, solves>>]_vars
\* A second batch on top of a first one of which a token is redeemed.
C10_Witness ==
  /\ Returned("generate") /\ replies # <<>>
  /\ replies[1].kind = Generated(<<>>).kind
  /\ Cardinality(links) = 20
  /\ solves # {}

\* C11: a start that succeeded has answered with the number of events the
\* sender has once the new row is stored: "First link solved" exactly when
\* that number is 1, otherwise the count n, n >= 2; the number of events is
\* also the number of distinct tokens the sender has redeemed.
C11_ReplyCountsUserEvents ==
  (Returned("start") /\ replies # <<>> /\ replies[1].kind \in Success)
    => LET n == Cardinality(EventsOf(update.user)) IN
       /\ n >= 1
       /\ n = Cardinality({s.token : s \in EventsOf(update.user)})
       /\ HasEvent(update.user, update.args[1])
       /\ replies = <<IF n = 1 THEN FirstRedemption ELSE SubsequentRedemption(n)>>
\* The second redemption of a user, of another token, while another sender
\* has a user row.
C11_Witness ==
  /\ Returned("start")
  /\ replies = <<SubsequentRedemption(2)>>
  /\ {s.token : s \in EventsOf(update.user)} = ArgTokens
  /\ Cardinality(users) = 2

\* The step that dispatches /user <digits> from the operator.
UserByIdStep ==
  /\ pc = "idle"
  /\ update'.cmd = "user"
  /\ Authorized(update'.user)
  /\ update'.uargs # <<>>
  /\ isdigit(update'.uargs[1])

\* C12: /user <id> from the operator is answered "User not found in DB."
\* exactly when no sender with that telegram id has ever sent /start; for an
\* id that has, the answer carries that user's id and first_seen, and its
\* listing is the single line "No solves yet" exactly when the user has no
\* event, also when a restart removed the events.
C12_UserByIdFoundOnceStarted ==
  [][UserByIdStep =>
       LET tid == IntOf(update'.uargs[1]) IN
       /\ replies' = <<NotFound>> <=> tid \notin started
       /\ tid \in started =>
            /\ Len(replies') = 1
            /\ replies'[1].kind = "User: name (n) First seen: m Solved links:"
            /\ replies'[1].n = tid
            /\ \E u \in RowsOf(tid) : replies'[1].m = u.first_seen
            /\ replies'[1].lines = <<NoSolvesYet>> <=> EventsOf(tid) = {}
            /\ EventsOf(tid) # {} =>
                 Len(replies'[1].lines) = Cardinality(EventsOf(tid))]_vars
\* /user 2 after user 2 redeemed a token and a restart removed the event.
C12_Witness ==
  /\ Returned("user") /\ update.uargs = <<<<"2">>>>
  /\ 2 \in started
  /\ seq.solves > 0 /\ EventsOf(2) = {}
  /\ Len(replies) = 1 /\ replies[1].lines = <<NoSolvesYet>>

\* C13: /stats from the operator reports as total users the number of
\* telegram ids that have ever sent /start (with or without a token, stored
\* or not) and as total links solved the number of /start answered with a
\* solve since the last restart by the operator; the two tables hold these
\* numbers of rows in every reachable state.
C13_StatsCountsStartsAndSolves ==
  /\ [](Cardinality(users) = Cardinality(started))
  /\ [](Cardinality(solves) = succeeded)
  /\ [][(pc = "idle" /\ update'.cmd = "stats" /\ Authorized(update'.user))
          => replies' = <<Reply("Total users: n Total links solved: m",
                                Cardinality(started), succeeded, <<>>, <<>>)>>]_vars
\* /stats after two senders sent /start, one event was removed by a restart
\* and one was stored after it.
C13_Witness ==
  /\ Returned("stats") /\ Authorized(update.user)
  /\ Len(replies) = 1 /\ replies[1].n = 2 /\ replies[1].m = 1
  /\ started = UserIds
  /\ seq.solves = 2

\* The lines of the reply to /latest, and the stored event a line shows.
RecentLines == IF replies = <<NoRecent>> THEN <<>> ELSE replies[1].lines
EventOfLine(line) ==
  {s \in solves : /\ s.token = line.token
                  /\ s.solved_at = line.at
                  /\ \E u \in RowsOf(line.tid) : s.user_id = u.id}
Shown == UNION {EventOfLine(RecentLines[k]) : k \in 1..Len(RecentLines)}

\* C14: the reply to /latest from the operator lists min(10, number of
\* stored events) events, each line a stored event of its own, the newest
\* first, and no stored event it leaves out is newer than one it lists.
C14_LatestNewestTen ==
  (Returned("latest") /\ Authorized(update.user))
    => LET n == Cardinality(solves)
           k == IF n < 10 THEN n ELSE 10
       IN
       /\ Len(replies) = 1
       /\ replies = <<NoRecent>> <=> n = 0
       /\ Len(RecentLines) = k
       /\ \A a \in 1..k : Cardinality(EventOfLine(RecentLines[a])) = 1
       /\ Cardinality(Shown) = k
       /\ \A a, b \in 1..k : a < b => RecentLines[a].at >= RecentLines[b].at
       /\ \A s \in solves \ Shown : \A a \in 1..k : s.solved_at <= RecentLines[a].at
\* More than 10 stored events, and one of those left out is as old as the
\* oldest one listed.
C14_Witness ==
  /\ Returned("latest") /\ Authorized(update.user)
  /\ Cardinality(solves) > 10
  /\ Len(RecentLines) = 10
  /\ \E s \in solves \ Shown : s.solved_at = RecentLines[10].at

\* A restart by the operator has deleted the tokens and fewer than 10 tokens
\* are stored since.
RestartIncomplete ==
  /\ update.cmd = "restart" /\ Authorized(update.user)
  /\ Cardinality(links) < 10

\* C15: a restart runs from its deletes to its tenth insert without any
\* other command being handled in between: every step taken while the
\* tokens are deleted and not yet issued again is a step of that restart.
C15_RestartRunsToCompletion ==
  [][RestartIncomplete => (pc # "idle" /\ update' = update)]_vars

\* C16: the first /start of a sender with an id (with or without a token,
\* stored or not) creates the sender's users row, with the time of that
\* call as first_seen; no step of any handler, those of restart included,
\* removes a users row or changes its telegram id or first_seen; only /start
\* adds rows, one at most; and no two rows carry the same telegram id.
C16_UserRowsCreatedOnceAndKept ==
  /\ [](\A u1, u2 \in users : u1.telegram_id = u2.telegram_id => u1 = u2)
  /\ [](\A tid \in UserIds : tid \in started <=> RowsOf(tid) # {})
  /\ [][/\ \A u \in users : \E v \in users' :
              /\ v.id = u.id /\ v.telegram_id = u.telegram_id
              /\ v.first_seen = u.first_seen
        /\ (pc = "idle" /\ update'.cmd = "start" /\ update'.user # NoUser
              /\ RowsOf(update'.user) = {})
             => \E v \in users' :
                  /\ users' = users \cup {v} /\ v \notin users
                  /\ v.telegram_id = update'.user
                  /\ v.first_seen = clock'
        /\ ~(pc = "idle" /\ update'.cmd = "start" /\ update'.user # NoUser
              /\ RowsOf(update'.user) = {})
             => users' = users]_vars
\* A /start without a token of a sender whose row was stored at an earlier
\* time and has outlived a restart that removed the sender's event.
C16_Witness ==
  /\ Returned("start") /\ update.user # NoUser /\ update.args = <<>>
  /\ \E u \in RowsOf(update.user) : u.first_seen < clock
  /\ seq.solves > 0 /\ solves = {}
  /\ firsts[update.user].ever = 1

\* C17: a /generate by the operator whose handler is over has ended with a
\* reply, and every token it stored is one the reply lists, also when uuid4
\* returned a stored value during the batch.
C17_IssueEndsWithReply ==
  (pc = "idle" /\ update.cmd = "generate" /\ Authorized(update.user))
    => /\ replies # <<>>
       /\ \A k \in 1..Len(tokens) :
            \E r \in 1..Len(replies) : tokens[k][2] \in Listed(replies[r])

\* C18: in every reachable state, the states between the two DELETEs of a
\* restart and those of a batch cut short included, every row of solves
\* carries the id of a users row and the token of a links row.
C18_SolvesReferToUsersAndLinks ==
  \A s \in solves :
    /\ \E u \in users : u.id = s.user_id
    /\ Stored(s.token)
\* Between the two DELETEs of a restart that found events and tokens.
C18_Witness ==
  /\ pc = "restart_delete_links"
  /\ links # {} /\ users # {}
  /\ seq.solves > 0 /\ solves = {}

====
